---- MODULE Spec2Model ----
(***************************************************************************)
(* Model of the BranchDropdown toolbar component                           *)
(* (app/src/ui/toolbar/branch-dropdown.tsx): the display derived by        *)
(* render() from the repository snapshot, and the open/close requests the  *)
(* component's handlers send to the host (dispatcher and                   *)
(* onDropDownStateChanged prop) for the branch picker foldout and the      *)
(* CI-status popover.                                                      *)
(***************************************************************************)
EXTENDS Integers, Sequences, FiniteSets, TLC

\* ---------------------------------------------------------------- bounds
\* longest branch list of a snapshot
MaxBranches == 1
\* largest badge bottom position reported by the badge
MaxBadgeBottom == 1

\* ------------------------------------------------------- program constants
\* tip.currentSha.substr(0, 7)
ShortShaLen == 7
\* Math.round(checkoutProgress.value * 100)
PercentScale == 100
\* progress values are modelled in thousandths: value = n / ValueDenominator
ValueDenominator == 1000

\* ------------------------------------------------------------ value sets
Null == [kind |-> "null"]

Shas == {<<"a", "b", "c", "d", "e", "f", "1", "2", "3">>}

\* checkoutProgress.value in thousandths (0 and 0.425)
ProgressValues == {0, 425}

Tips ==
  {[kind |-> "Unknown"]}
    \cup {[kind |-> "Unborn", ref |-> r] : r \in {"main"}}
    \cup {[kind |-> "Detached", currentSha |-> s] : s \in Shas}
    \cup {[kind |-> "Valid",
            branch |-> [name |-> "main", upstreamWithoutRemote |-> "null"]],
           [kind |-> "Valid",
            branch |-> [name |-> "feature", upstreamWithoutRemote |-> "pr-1"]]}

CheckoutProgresses ==
  {Null} \cup {[kind |-> "checkout", targetBranch |-> "feature", value |-> v] :
                 v \in ProgressValues}

ConflictStates ==
  {Null, [kind |-> "merge"], [kind |-> "rebase", targetBranch |-> "main"]}

Branches == {[isDesktopForkRemoteBranch |-> f] : f \in BOOLEAN}

BranchLists == UNION {[1..n -> Branches] : n \in 0..MaxBranches}

PullRequests == {Null, [kind |-> "pr", pullRequestNumber |-> 1]}

DragTypes == {"None", "Commit", "Other"}

DropdownStates == {"open", "closed"}

\* where the target of a pointer event lies
Targets == {"null", "notNode", "inPrBadge", "inRerunDialog", "elsewhere"}

\* -------------------------------------------------------------- variables
VARIABLES
  repositoryState,       \* props.repositoryState: tip, branches, checkout, conflict
  currentPullRequest,    \* props.currentPullRequest
  isOpen,                \* props.isOpen, owned by the host
  showCIStatusPopover,   \* props.showCIStatusPopover, owned by the host
  badgeBottom,           \* state.badgeBottom
  lastEvent,             \* the handler that ran last and its argument
  calls,                 \* the calls the last handler made on its collaborators
  toggleRun,             \* number of badge clicks in a row (capped at 2)
  visBefore1,            \* overlay flags before the last badge click
  visBefore2,            \* overlay flags before the badge click before that
  cancelled              \* a snapshot hid the open picker and no open request came since

vars == <<repositoryState, currentPullRequest, isOpen, showCIStatusPopover,
          badgeBottom, lastEvent, calls,
          toggleRun, visBefore1, visBefore2, cancelled>>

Props ==
  [repositoryState |-> repositoryState,
   currentPullRequest |-> currentPullRequest,
   isOpen |-> isOpen,
   showCIStatusPopover |-> showCIStatusPopover]

\* ------------------------------------------------------------------ render
\* the build constant __DARWIN__, which only capitalises the description
\* ('Current Branch', 'Switching to Branch'); the model is of the other builds
darwin == FALSE

Min(a, b) == IF a < b THEN a ELSE b

\* String.prototype.substr(0, n)
Substr(s, n) == SubSeq(s, 1, Min(n, Len(s)))

\* Math.round(value * 100) for value = v / ValueDenominator (half rounds up)
FriendlyProgress(v) ==
  (2 * v * PercentScale + ValueDenominator) \div (2 * ValueDenominator)

\* isRebaseConflictState of lib/app-state
isRebaseConflictState(conflictState) == conflictState.kind = "rebase"

\* allBranches.some(b => !b.isDesktopForkRemoteBranch)
SomeEligibleBranch(allBranches) ==
  \E i \in 1..Len(allBranches) : ~allBranches[i].isDesktopForkRemoteBranch

\* InitialDisplay without the pull request icon
InitialDisplay_NoPullRequestIcon(p, dw) ==
  [icon |-> "gitBranch",
   iconClassName |-> "undefined",
   description |-> <<IF dw THEN "Current Branch" ELSE "Current branch">>,
   canOpen |-> TRUE,
   disabled |-> FALSE]

\* the initial values of render's locals, and the pull request icon
InitialDisplay(p, dw) ==
  [icon |-> IF p.currentPullRequest # Null THEN "gitPullRequest" ELSE "gitBranch",
   iconClassName |-> "undefined",
   description |-> <<IF dw THEN "Current Branch" ELSE "Current branch">>,
   canOpen |-> TRUE,
   disabled |-> FALSE]

\* the branch of render taken on the tip kind (tip is not Unknown)
TipDisplay(p, dw) ==
  LET d == InitialDisplay(p, dw)
      branchesState == p.repositoryState.branchesState
      tip == branchesState.tip
  IN  CASE tip.kind = "Unborn" ->
             [d EXCEPT !.canOpen = SomeEligibleBranch(branchesState.allBranches)]
               @@ [title |-> <<tip.ref>>,
                   tooltip |-> <<"Current branch is ", tip.ref>>]
        [] tip.kind = "Detached" ->
             [d EXCEPT !.icon = "gitCommit",
                       !.description = <<"Detached HEAD">>]
               @@ [title |-> <<"On ", Substr(tip.currentSha, ShortShaLen)>>,
                   tooltip |-> <<"Currently on a detached HEAD">>]
        [] tip.kind = "Valid" ->
             d @@ [title |-> <<tip.branch.name>>,
                   tooltip |-> <<"Current branch is ", tip.branch.name>>]

\* CheckoutDisplay that passes the progress value on only when it is truthy
CheckoutDisplay_TruthyProgress(d, checkoutProgress, dw) ==
  LET description == IF dw THEN "Switching to Branch" ELSE "Switching to branch"
  IN  [d EXCEPT !.title = <<checkoutProgress.targetBranch>>,
                !.description =
                   IF checkoutProgress.value > 0
                     THEN <<description, " (",
                            FriendlyProgress(checkoutProgress.value), "%)">>
                     ELSE <<description>>,
                !.icon = "syncClockwise",
                !.iconClassName = "spin",
                !.canOpen = FALSE]
        @@ [progressValue |-> IF checkoutProgress.value > 0
                                THEN <<checkoutProgress.value>>
                                ELSE <<>>]

\* the checkout progress branch of render
CheckoutDisplay(d, checkoutProgress, dw) ==
  LET description == IF dw THEN "Switching to Branch" ELSE "Switching to branch"
  IN  [d EXCEPT !.title = <<checkoutProgress.targetBranch>>,
                !.description =
                   IF checkoutProgress.value > 0
                     THEN <<description, " (",
                            FriendlyProgress(checkoutProgress.value), "%)">>
                     ELSE <<description>>,
                !.icon = "syncClockwise",
                !.iconClassName = "spin",
                !.canOpen = FALSE]
        @@ [progressValue |-> <<checkoutProgress.value>>]

\* RebaseDisplay that leaves the button enabled
RebaseDisplay_NotDisabled(d, conflictState) ==
  [d EXCEPT !.title = <<conflictState.targetBranch>>,
            !.description = <<"Rebasing branch">>,
            !.icon = "gitBranch",
            !.canOpen = FALSE]
    @@ [progressValue |-> <<>>]

\* the rebase conflict branch of render
RebaseDisplay(d, conflictState) ==
  [d EXCEPT !.title = <<conflictState.targetBranch>>,
            !.description = <<"Rebasing branch">>,
            !.icon = "gitBranch",
            !.canOpen = FALSE,
            !.disabled = TRUE]
    @@ [progressValue |-> <<>>]

\* Display that blocks the dropdown on a conflict of any kind
Display_AnyConflictBlocks(p, dw) ==
  LET d == TipDisplay(p, dw)
      checkoutProgress == p.repositoryState.checkoutProgress
      conflictState == p.repositoryState.changesState.conflictState
  IN  IF checkoutProgress # Null
        THEN CheckoutDisplay(d, checkoutProgress, dw)
        ELSE IF conflictState # Null
               THEN IF isRebaseConflictState(conflictState)
                      THEN RebaseDisplay(d, conflictState)
                      ELSE [d EXCEPT !.canOpen = FALSE, !.disabled = TRUE]
                             @@ [progressValue |-> <<>>]
               ELSE d @@ [progressValue |-> <<>>]

\* Display that tests the rebase conflict before the checkout progress
Display_ConflictFirst(p, dw) ==
  LET d == TipDisplay(p, dw)
      checkoutProgress == p.repositoryState.checkoutProgress
      conflictState == p.repositoryState.changesState.conflictState
  IN  IF conflictState # Null /\ isRebaseConflictState(conflictState)
        THEN RebaseDisplay(d, conflictState)
        ELSE IF checkoutProgress # Null
               THEN CheckoutDisplay(d, checkoutProgress, dw)
               ELSE d @@ [progressValue |-> <<>>]

\* the locals of render once the checkout and conflict overrides are applied
Display(p, dw) ==
  LET d == TipDisplay(p, dw)
      checkoutProgress == p.repositoryState.checkoutProgress
      conflictState == p.repositoryState.changesState.conflictState
  IN  IF checkoutProgress # Null
        THEN CheckoutDisplay(d, checkoutProgress, dw)
        ELSE IF conflictState # Null /\ isRebaseConflictState(conflictState)
               THEN RebaseDisplay(d, conflictState)
               ELSE d @@ [progressValue |-> <<>>]

\* CurrentState that follows the host's flag alone
CurrentState_IgnoresCanOpen(open, canOpen) == IF open THEN "open" ELSE "closed"

\* const currentState = isOpen && canOpen ? 'open' : 'closed'
CurrentState(open, canOpen) == IF open /\ canOpen THEN "open" ELSE "closed"

\* renderPopover: the popover element, or null without a pull request
renderPopover(p, bottom) ==
  IF p.currentPullRequest = Null
    THEN Null
    ELSE [kind |-> "CICheckRunPopover",
          prNumber |-> p.currentPullRequest.pullRequestNumber,
          branchName |->
            IF p.repositoryState.branchesState.tip.kind = "Valid"
              THEN LET branch == p.repositoryState.branchesState.tip.branch
                   IN  IF branch.upstreamWithoutRemote # "null"
                         THEN branch.upstreamWithoutRemote
                         ELSE branch.name
              ELSE "",
          badgeBottom |-> bottom]

\* renderPullRequestInfo: the badge, or null without a pull request
renderPullRequestInfo(p) ==
  IF p.currentPullRequest = Null
    THEN Null
    ELSE [kind |-> "PullRequestBadge",
          number |-> p.currentPullRequest.pullRequestNumber]

\* Element that renders the popover whatever the host's flag says
Element_PopoverAlways(p, bottom, d) ==
  [kind |-> "element",
   icon |-> d.icon,
   iconClassName |-> d.iconClassName,
   title |-> d.title,
   description |-> d.description,
   tooltip |-> IF p.isOpen THEN <<>> ELSE d.tooltip,
   dropdownState |-> CurrentState(p.isOpen, d.canOpen),
   disabled |-> d.disabled,
   showDisclosureArrow |-> d.canOpen,
   progressValue |-> d.progressValue,
   badge |-> renderPullRequestInfo(p),
   popover |-> renderPopover(p, bottom)]

\* Element that shows the disclosure arrow by the dropdown state
Element_ArrowByState(p, bottom, d) ==
  [kind |-> "element",
   icon |-> d.icon,
   iconClassName |-> d.iconClassName,
   title |-> d.title,
   description |-> d.description,
   tooltip |-> IF p.isOpen THEN <<>> ELSE d.tooltip,
   dropdownState |-> CurrentState(p.isOpen, d.canOpen),
   disabled |-> d.disabled,
   showDisclosureArrow |-> CurrentState(p.isOpen, d.canOpen) = "open",
   progressValue |-> d.progressValue,
   badge |-> renderPullRequestInfo(p),
   popover |-> IF p.showCIStatusPopover THEN renderPopover(p, bottom) ELSE Null]

\* the fragment render returns: the ToolbarDropdown's props and the popover
Element(p, bottom, d) ==
  [kind |-> "element",
   icon |-> d.icon,
   iconClassName |-> d.iconClassName,
   title |-> d.title,
   description |-> d.description,
   tooltip |-> IF p.isOpen THEN <<>> ELSE d.tooltip,
   dropdownState |-> CurrentState(p.isOpen, d.canOpen),
   disabled |-> d.disabled,
   showDisclosureArrow |-> d.canOpen,
   progressValue |-> d.progressValue,
   badge |-> renderPullRequestInfo(p),
   popover |-> IF p.showCIStatusPopover THEN renderPopover(p, bottom) ELSE Null]

\* render without the early return for an Unknown tip
render_UnknownFallsThrough(p, bottom, dw) ==
  IF p.repositoryState.branchesState.tip.kind = "Unknown"
    THEN Element(p, bottom,
                 InitialDisplay(p, dw)
                   @@ [title |-> <<>>, tooltip |-> <<>>, progressValue |-> <<>>])
    ELSE Element(p, bottom, Display(p, dw))

\* render: null for an Unknown tip, otherwise the dropdown and the popover
render(p, bottom, dw) ==
  IF p.repositoryState.branchesState.tip.kind = "Unknown"
    THEN Null
    ELSE Element(p, bottom, Display(p, dw))

\* what is on screen in the current state
View == render(Props, badgeBottom, darwin)

Rendered == View # Null

PickerShown == Rendered /\ View.dropdownState = "open"

PopoverShown == Rendered /\ View.popover # Null

BadgeShown == Rendered /\ View.badge # Null

\* canOpen of the current snapshot (the control is rendered)
CanOpen == View.showDisclosureArrow

\* ---------------------------------------------------------------- handlers
\* a call made on the dispatcher, the drag manager or a prop callback
Call(op, arg) == [op |-> op, arg |-> arg]

\* onDropDownStateChanged that drops every request during a checkout
onDropDownStateChanged_GatesClose(p, state) ==
  IF p.repositoryState.checkoutProgress # Null
    THEN <<>>
    ELSE <<Call("onDropDownStateChanged", state)>>

\* onDropDownStateChanged: forwards the request unless it opens during a checkout
onDropDownStateChanged(p, state) ==
  IF state = "open" /\ p.repositoryState.checkoutProgress # Null
    THEN <<>>
    ELSE <<Call("onDropDownStateChanged", state)>>

\* onMouseEnter that reacts to a drag of any type
onMouseEnter_AnyDrag(p, drag) ==
  IF drag # "None"
    THEN <<Call("emitEnterDragZone", "branch-button"),
           Call("showFoldout", "Branch")>>
    ELSE <<>>

\* onMouseEnter: with a commit drag in progress, enter the zone and show the foldout
onMouseEnter(p, drag) ==
  IF drag = "Commit"
    THEN <<Call("emitEnterDragZone", "branch-button"),
           Call("showFoldout", "Branch")>>
    ELSE <<>>

\* openPopover
openPopover == <<Call("setShowCIStatusPopover", "true")>>

\* Node.contains for an element looked up by id (null when it does not exist)
Contains(elemExists, zone, target) == elemExists /\ target = zone

\* closePopover that hides the popover wherever the target lies
closePopover_NoExclusion(event, prBadgeElem, rerunDialog) ==
  <<Call("setShowCIStatusPopover", "false")>>

\* closePopover that only spares a target inside the badge
closePopover_BadgeOnly(event, prBadgeElem, rerunDialog) ==
  IF event = "undefined"
    THEN <<Call("setShowCIStatusPopover", "false")>>
    ELSE IF /\ event # "null"
            /\ event # "notNode"
            /\ Contains(prBadgeElem, "inPrBadge", event)
           THEN <<>>
           ELSE <<Call("setShowCIStatusPopover", "false")>>

\* closePopover: event is "undefined" or the place of the event's target
closePopover(event, prBadgeElem, rerunDialog) ==
  IF event = "undefined"
    THEN <<Call("setShowCIStatusPopover", "false")>>
    ELSE IF /\ event # "null"
            /\ event # "notNode"
            /\ \/ Contains(prBadgeElem, "inPrBadge", event)
               \/ Contains(rerunDialog, "inRerunDialog", event)
           THEN <<>>
           ELSE <<Call("setShowCIStatusPopover", "false")>>

\* togglePopover that opens the popover before it closes the foldout
togglePopover_OpensFirst(p) ==
  IF p.showCIStatusPopover
    THEN closePopover("undefined", FALSE, FALSE)
    ELSE openPopover \o <<Call("closeFoldout", "Branch")>>

\* togglePopover that opens the popover whatever the flag says
togglePopover_AlwaysOpens(p) ==
  <<Call("closeFoldout", "Branch")>> \o openPopover

\* togglePopover
togglePopover(p) ==
  IF p.showCIStatusPopover
    THEN closePopover("undefined", FALSE, FALSE)
    ELSE <<Call("closeFoldout", "Branch")>> \o openPopover

\* -------------------------------------------------------------------- host
\* the overlay flags the host owns
Flags == [isOpen |-> isOpen, showCIStatusPopover |-> showCIStatusPopover]

\* the host carries out one call
HostApply(h, c) ==
  CASE c.op = "onDropDownStateChanged" -> [h EXCEPT !.isOpen = (c.arg = "open")]
    [] c.op = "showFoldout" -> [h EXCEPT !.isOpen = TRUE]
    [] c.op = "closeFoldout" -> [h EXCEPT !.isOpen = FALSE]
    [] c.op = "setShowCIStatusPopover" ->
         [h EXCEPT !.showCIStatusPopover = (c.arg = "true")]
    [] OTHER -> h

\* the host carries out the calls of a handler in the order they were made
RECURSIVE HostApplyAll(_, _)
HostApplyAll(h, cs) ==
  IF cs = <<>> THEN h ELSE HostApplyAll(HostApply(h, Head(cs)), Tail(cs))

\* ----------------------------------------------------------------- actions
NoEvent ==
  [handler |-> "none", state |-> "", target |-> "", drag |-> "None",
   badgeBottom |-> 0]

NoFlags == [isOpen |-> FALSE, showCIStatusPopover |-> FALSE]

Init ==
  /\ repositoryState \in
       [branchesState : [tip : Tips, allBranches : BranchLists],
        checkoutProgress : CheckoutProgresses,
        changesState : [conflictState : ConflictStates]]
  /\ currentPullRequest \in PullRequests
  /\ isOpen = FALSE
  /\ showCIStatusPopover = FALSE
  /\ badgeBottom = 0
  /\ lastEvent = NoEvent
  /\ calls = <<>>
  /\ toggleRun = 0
  /\ visBefore1 = NoFlags
  /\ visBefore2 = NoFlags
  /\ cancelled = FALSE

\* the picker is shown and the snapshot that gives props p hides it with
\* canOpen false, or an earlier snapshot did
CancelledBy(p) ==
  LET after == render(p, badgeBottom, darwin)
  IN  \/ cancelled
      \/ isOpen /\ PickerShown /\ after # Null /\ ~after.showDisclosureArrow

\* a handler ran: its calls are recorded and carried out by the host
Handled(ev, cs) ==
  /\ lastEvent' = ev
  /\ calls' = cs
  /\ isOpen' = HostApplyAll(Flags, cs).isOpen
  /\ showCIStatusPopover' = HostApplyAll(Flags, cs).showCIStatusPopover
  /\ cancelled' = /\ cancelled
                  /\ HostApplyAll(Flags, cs).isOpen
                  /\ \A i \in 1..Len(cs) :
                       cs[i] \notin {Call("onDropDownStateChanged", "open"),
                                     Call("showFoldout", "Branch")}

\* anything but a badge click ends a run of badge clicks
EndToggleRun ==
  /\ toggleRun' = 0
  /\ visBefore1' = NoFlags
  /\ visBefore2' = NoFlags

\* nothing was handled by the component: the environment changed
External ==
  /\ lastEvent' = NoEvent
  /\ calls' = <<>>
  /\ EndToggleRun
  /\ UNCHANGED <<isOpen, showCIStatusPopover, badgeBottom>>

\* the repository's tip changes
TipChanged ==
  \E tip \in Tips :
    /\ tip # repositoryState.branchesState.tip
    /\ repositoryState' = [repositoryState EXCEPT !.branchesState.tip = tip]
    /\ External
    /\ cancelled' = CancelledBy([Props EXCEPT !.repositoryState = repositoryState'])
    /\ UNCHANGED currentPullRequest

\* the repository's branch list changes
BranchesChanged ==
  \E bs \in BranchLists :
    /\ bs # repositoryState.branchesState.allBranches
    /\ repositoryState' = [repositoryState EXCEPT !.branchesState.allBranches = bs]
    /\ External
    /\ cancelled' = CancelledBy([Props EXCEPT !.repositoryState = repositoryState'])
    /\ UNCHANGED currentPullRequest

\* a checkout starts, progresses or ends
CheckoutProgressChanged ==
  \E cp \in CheckoutProgresses :
    /\ cp # repositoryState.checkoutProgress
    /\ repositoryState' = [repositoryState EXCEPT !.checkoutProgress = cp]
    /\ External
    /\ cancelled' = CancelledBy([Props EXCEPT !.repositoryState = repositoryState'])
    /\ UNCHANGED currentPullRequest

\* a conflict appears or is resolved
ConflictStateChanged ==
  \E cs \in ConflictStates :
    /\ cs # repositoryState.changesState.conflictState
    /\ repositoryState' = [repositoryState EXCEPT !.changesState.conflictState = cs]
    /\ External
    /\ cancelled' = CancelledBy([Props EXCEPT !.repositoryState = repositoryState'])
    /\ UNCHANGED currentPullRequest

\* the pull request of the current branch changes
PullRequestChanged ==
  \E pr \in PullRequests :
    /\ pr # currentPullRequest
    /\ currentPullRequest' = pr
    /\ External
    /\ cancelled' = CancelledBy([Props EXCEPT !.currentPullRequest = pr])
    /\ UNCHANGED repositoryState

\* the dropdown asks to be opened or closed
DropDownStateChanged ==
  /\ Rendered
  /\ \E state \in DropdownStates :
    /\ Handled([NoEvent EXCEPT !.handler = "onDropDownStateChanged",
                               !.state = state],
               onDropDownStateChanged(Props, state))
    /\ EndToggleRun
    /\ UNCHANGED <<repositoryState, currentPullRequest, badgeBottom>>

\* the pointer enters the dropdown button; drag is the type of the drag the
\* dragAndDropManager has in progress ("None" without a drag)
MouseEnter ==
  /\ Rendered
  /\ \E drag \in DragTypes :
       Handled([NoEvent EXCEPT !.handler = "onMouseEnter", !.drag = drag],
               onMouseEnter(Props, drag))
  /\ EndToggleRun
  /\ UNCHANGED <<repositoryState, currentPullRequest, badgeBottom>>

\* the pull request badge is clicked
BadgeClick ==
  /\ BadgeShown
  /\ Handled([NoEvent EXCEPT !.handler = "onBadgeClick"], togglePopover(Props))
  /\ toggleRun' = Min(toggleRun + 1, 2)
  /\ visBefore1' = Flags
  /\ visBefore2' = IF toggleRun = 0 THEN NoFlags ELSE visBefore1
  /\ UNCHANGED <<repositoryState, currentPullRequest, badgeBottom>>

\* the popover asks to be closed, with the pointer event that caused it or without
PopoverClose ==
  /\ PopoverShown
  /\ \E event \in {"undefined"} \cup Targets, prBadgeElem, rerunDialog \in BOOLEAN :
    /\ event = "inPrBadge" => prBadgeElem
    /\ event = "inRerunDialog" => rerunDialog
    /\ Handled([NoEvent EXCEPT !.handler = "closePopover", !.target = event],
               closePopover(event, prBadgeElem, rerunDialog))
    /\ EndToggleRun
    /\ UNCHANGED <<repositoryState, currentPullRequest, badgeBottom>>

\* one click on the badge while the popover is shown: the popover's
\* outside-pointer handler (target inside the badge) and the badge's click
\* handler both run, in either order, the second on the props the host updated
BadgeClickOverPopover ==
  /\ BadgeShown
  /\ PopoverShown
  /\ \E order \in {"closeFirst", "toggleFirst"}, rerunDialog \in BOOLEAN :
    /\ LET outside == closePopover("inPrBadge", TRUE, rerunDialog)
           first == IF order = "closeFirst" THEN outside ELSE togglePopover(Props)
           mid == HostApplyAll(Flags, first)
           midProps == [Props EXCEPT !.isOpen = mid.isOpen,
                                     !.showCIStatusPopover = mid.showCIStatusPopover]
           second == IF order = "closeFirst" THEN togglePopover(midProps) ELSE outside
       IN  Handled([NoEvent EXCEPT !.handler = "closePopover+onBadgeClick",
                                   !.state = order,
                                   !.target = "inPrBadge"],
                   first \o second)
    /\ toggleRun' = Min(toggleRun + 1, 2)
    /\ visBefore1' = Flags
    /\ visBefore2' = IF toggleRun = 0 THEN NoFlags ELSE visBefore1
    /\ UNCHANGED <<repositoryState, currentPullRequest, badgeBottom>>

\* updateBadgeBottomPosition that keeps the old position when 0 is reported
updateBadgeBottomPosition_SkipsZero ==
  /\ BadgeShown
  /\ \E bottom \in 0..MaxBadgeBottom :
    /\ badgeBottom' = IF bottom > 0 THEN bottom ELSE badgeBottom
    /\ lastEvent' = [NoEvent EXCEPT !.handler = "updateBadgeBottomPosition",
                                    !.badgeBottom = bottom]
    /\ calls' = <<>>
    /\ EndToggleRun
    /\ UNCHANGED <<repositoryState, currentPullRequest, isOpen,
                   showCIStatusPopover, cancelled>>

\* updateBadgeBottomPosition: the badge reports its bottom position
updateBadgeBottomPosition ==
  /\ BadgeShown
  /\ \E bottom \in 0..MaxBadgeBottom :
    /\ badgeBottom' = bottom
    /\ lastEvent' = [NoEvent EXCEPT !.handler = "updateBadgeBottomPosition",
                                    !.badgeBottom = bottom]
    /\ calls' = <<>>
    /\ EndToggleRun
    /\ UNCHANGED <<repositoryState, currentPullRequest, isOpen,
                   showCIStatusPopover, cancelled>>

Next ==
  \/ TipChanged
  \/ BranchesChanged
  \/ CheckoutProgressChanged
  \/ ConflictStateChanged
  \/ PullRequestChanged
  \/ DropDownStateChanged
  \/ MouseEnter
  \/ BadgeClick
  \/ BadgeClickOverPopover
  \/ PopoverClose
  \/ updateBadgeBottomPosition

Spec == Init /\ [][Next]_vars

TypeOK ==
  /\ isOpen \in BOOLEAN
  /\ showCIStatusPopover \in BOOLEAN
  /\ badgeBottom \in 0..MaxBadgeBottom
  /\ toggleRun \in 0..2

\* ------------------------------------------------------------------ claims
ConflictState == repositoryState.changesState.conflictState

CheckoutProgress == repositoryState.checkoutProgress

Tip == repositoryState.branchesState.tip

RebaseConflict == ConflictState # Null /\ isRebaseConflictState(ConflictState)

Made(op, arg) == \E i \in 1..Len(calls) : calls[i] = Call(op, arg)

\* C1: in every reachable state at most one of the branch picker and the
\* CI-status popover is displayed open.
C1_MutualExclusion == ~(PickerShown /\ PopoverShown)

\* C2: an 'open' request passed to onDropDownStateChanged makes no call on
\* the host if and only if canOpen of the current snapshot is false; when
\* canOpen is true the request is forwarded and the picker is open.
C2_DropdownGate ==
  (lastEvent.handler = "onDropDownStateChanged" /\ lastEvent.state = "open")
    => /\ (calls = <<>>) <=> ~CanOpen
       /\ CanOpen => (Made("onDropDownStateChanged", "open") /\ PickerShown)

\* C3: when the pointer enters the control during a commit drag while canOpen
\* is false, no request to open the branch picker reaches the host.
C3_DragHoverGated ==
  (lastEvent.handler = "onMouseEnter" /\ lastEvent.drag = "Commit" /\ ~CanOpen)
    => /\ ~Made("showFoldout", "Branch")
       /\ ~Made("onDropDownStateChanged", "open")

\* C4: the branch picker is displayed open only if canOpen is true for the
\* current snapshot; with canOpen false it is displayed closed whatever the
\* host's isOpen flag says.
C4_OpenOnlyIfCanOpen ==
  Rendered => /\ View.dropdownState = "open" => CanOpen
              /\ ~CanOpen => View.dropdownState = "closed"

\* C4 witness: a snapshot with canOpen false arrived while the host's flag
\* says open, and the picker is displayed closed.
C4_Witness ==
  /\ Rendered
  /\ lastEvent = NoEvent
  /\ isOpen
  /\ ~CanOpen
  /\ View.dropdownState = "closed"

\* C5 as stated: with a rebase conflict the display has canOpen false and
\* disabled true, for every tip and whatever the other inputs are.
C5_RebaseBlocksAlways ==
  (Rendered /\ RebaseConflict) => (~CanOpen /\ View.disabled)

\* C5 amended: with a rebase conflict and no checkout in progress the display
\* has canOpen false and disabled true for every rendered tip; with a checkout
\* in progress as well it has canOpen false and disabled false.
C5_RebaseBlocksUnlessCheckout ==
  (Rendered /\ RebaseConflict)
    => /\ ~CanOpen
       /\ View.disabled <=> (CheckoutProgress = Null)

C5_Witness ==
  /\ Rendered
  /\ RebaseConflict
  /\ CheckoutProgress = Null
  /\ Tip.kind = "Unborn"
  /\ SomeEligibleBranch(repositoryState.branchesState.allBranches)
  /\ View.disabled

\* C6: with a checkout in progress every field of the display is the same
\* with and without a rebase conflict: the title is the checkout's target
\* branch, the icon the spinning sync glyph and canOpen is false.
C6_CheckoutOverridesConflict ==
  (Rendered /\ CheckoutProgress # Null)
    => LET others == [Props EXCEPT !.repositoryState.changesState.conflictState = Null]
       IN  /\ render(Props, badgeBottom, darwin) = render(others, badgeBottom, darwin)
           /\ View.title = <<CheckoutProgress.targetBranch>>
           /\ View.icon = "syncClockwise"
           /\ View.iconClassName = "spin"
           /\ ~CanOpen
           /\ ~View.disabled
           /\ View.progressValue = <<CheckoutProgress.value>>

C6_Witness ==
  /\ Rendered
  /\ CheckoutProgress # Null
  /\ RebaseConflict
  /\ ConflictState.targetBranch # CheckoutProgress.targetBranch

\* C7 as stated: two badge clicks in a row return both overlay flags to the
\* values they had before the first click.
C7_ToggleTwiceRestoresAll == toggleRun = 2 => Flags = visBefore2

\* C7 amended: two badge clicks in a row return the popover flag to the value
\* it had before the first click and leave the branch picker closed.
C7_ToggleTwiceRestoresPopover ==
  toggleRun = 2
    => /\ showCIStatusPopover = visBefore2.showCIStatusPopover
       /\ ~isOpen

C7_Witness ==
  /\ toggleRun = 2
  /\ visBefore2.showCIStatusPopover
  /\ showCIStatusPopover

\* C8 as stated: closePopover with an event makes no call when the target is
\* inside the pr-badge element and asks to hide the popover for a target
\* anywhere else.
C8_OnlyBadgeKeepsOpen ==
  (lastEvent.handler = "closePopover" /\ lastEvent.target # "undefined")
    => IF lastEvent.target = "inPrBadge"
         THEN calls = <<>>
         ELSE calls = <<Call("setShowCIStatusPopover", "false")>>

\* C8 amended: closePopover with an event makes no call when the target is
\* inside the pr-badge element or inside the rerun-check-runs element, and
\* asks to hide the popover for any other target.
C8_BadgeOrRerunKeepsOpen ==
  (lastEvent.handler = "closePopover" /\ lastEvent.target # "undefined")
    => IF lastEvent.target \in {"inPrBadge", "inRerunDialog"}
         THEN calls = <<>> /\ showCIStatusPopover
         ELSE calls = <<Call("setShowCIStatusPopover", "false")>>
              /\ ~showCIStatusPopover

C8_Witness ==
  /\ lastEvent.handler = "closePopover"
  /\ lastEvent.target = "inPrBadge"
  /\ PopoverShown

\* C9: with an Unknown tip nothing is rendered, whatever the checkout
\* progress, the conflict state, the pull request and the host's flags are.
C9_UnknownRendersNothing ==
  Tip.kind = "Unknown"
    => /\ View = Null
       /\ ~PickerShown
       /\ ~PopoverShown
       /\ ~BadgeShown

C9_Witness ==
  /\ Tip.kind = "Unknown"
  /\ isOpen
  /\ showCIStatusPopover
  /\ currentPullRequest # Null
  /\ CheckoutProgress # Null
  /\ RebaseConflict

\* C10 as stated: with a pull request, no checkout and no rebase conflict the
\* icon is the pull request icon for every rendered tip.
C10_PullRequestIconAlways ==
  (Rendered /\ currentPullRequest # Null /\ CheckoutProgress = Null
     /\ ~RebaseConflict)
    => View.icon = "gitPullRequest"

\* C10 amended: with a pull request, no checkout and no rebase conflict the
\* icon is the pull request icon for an Unborn and for a Valid tip, and the
\* commit icon for a Detached tip.
C10_PullRequestIconUnlessDetached ==
  (Rendered /\ currentPullRequest # Null /\ CheckoutProgress = Null
     /\ ~RebaseConflict)
    => View.icon = IF Tip.kind = "Detached" THEN "gitCommit" ELSE "gitPullRequest"

C10_Witness ==
  /\ Rendered
  /\ currentPullRequest # Null
  /\ CheckoutProgress = Null
  /\ ~RebaseConflict
  /\ Tip.kind = "Unborn"
  /\ View.icon = "gitPullRequest"

\* the DisplayState handed to the dropdown by a render
DisplayState(v) ==
  [icon |-> v.icon,
   iconClassName |-> v.iconClassName,
   title |-> v.title,
   description |-> v.description,
   tooltip |-> v.tooltip,
   canOpen |-> v.showDisclosureArrow,
   disabled |-> v.disabled,
   progressValue |-> v.progressValue]

\* the props of a render with the same tip, checkout progress and conflict state
SameSnapshot(pr, bs, open, show) ==
  [Props EXCEPT !.currentPullRequest = pr,
                !.repositoryState.branchesState.allBranches = bs,
                !.isOpen = open,
                !.showCIStatusPopover = show]

\* C11 as stated: any render with the same tip, checkout progress and
\* conflict state produces the same DisplayState, whatever the pull request,
\* the branch list, the isOpen flag, the popover flag and the badge anchor are.
C11_DisplayOfSnapshotAlone ==
  Rendered =>
    \A pr \in PullRequests, bs \in BranchLists, open, show \in BOOLEAN,
       bottom \in 0..MaxBadgeBottom :
      DisplayState(render(SameSnapshot(pr, bs, open, show), bottom, darwin))
        = DisplayState(View)

\* C11 amended: any render with the same tip, checkout progress, conflict
\* state, pull request and branch list produces the same icon, title,
\* description, canOpen, disabled and progressValue and the same tooltip text,
\* whatever the isOpen flag, the popover flag and the badge anchor are and
\* whatever happened before; the tooltip is handed over only while isOpen is
\* false.
C11_DisplayOfSnapshotAndPullRequest ==
  Rendered =>
    LET here == [DisplayState(View) EXCEPT !.tooltip = <<>>]
        text == Display(Props, darwin).tooltip
    IN  \A open, show \in BOOLEAN, bottom \in 0..MaxBadgeBottom :
          LET other == SameSnapshot(currentPullRequest,
                                    repositoryState.branchesState.allBranches,
                                    open, show)
              there == DisplayState(render(other, bottom, darwin))
          IN  /\ [there EXCEPT !.tooltip = <<>>] = here
              /\ there.tooltip = IF open THEN <<>> ELSE text

C11_Witness ==
  /\ Rendered
  /\ isOpen
  /\ showCIStatusPopover
  /\ badgeBottom > 0
  /\ CanOpen
  /\ lastEvent.handler = "onDropDownStateChanged"

\* C12: a pointer-enter without a commit drag in progress makes no call and
\* leaves the overlay flags and the badge anchor unchanged; with a commit drag
\* in progress it notifies the 'branch-button' drop zone and then asks to show
\* the branch foldout.
C12_MouseEnterOnlyOnCommitDrag ==
  [][lastEvent'.handler = "onMouseEnter" =>
       IF lastEvent'.drag = "Commit"
         THEN calls' = <<Call("emitEnterDragZone", "branch-button"),
                         Call("showFoldout", "Branch")>>
         ELSE /\ calls' = <<>>
              /\ UNCHANGED <<isOpen, showCIStatusPopover, badgeBottom>>]_vars

C12_Witness ==
  /\ lastEvent.handler = "onMouseEnter"
  /\ lastEvent.drag = "Other"
  /\ calls = <<>>
  /\ ~isOpen

\* C13: a 'closed' request passed to onDropDownStateChanged is forwarded to
\* the host in every state.
C13_CloseAlwaysForwarded ==
  (lastEvent.handler = "onDropDownStateChanged" /\ lastEvent.state = "closed")
    => calls = <<Call("onDropDownStateChanged", "closed")>>

C13_Witness ==
  /\ lastEvent.handler = "onDropDownStateChanged"
  /\ lastEvent.state = "closed"
  /\ CheckoutProgress # Null
  /\ RebaseConflict
  /\ Made("onDropDownStateChanged", "closed")

\* C14: progressValue is present in the display if and only if checkout
\* progress is present in the snapshot, and then equals the checkout's value,
\* value 0 included.
C14_ProgressValueIffCheckout ==
  Rendered =>
    View.progressValue =
      IF CheckoutProgress # Null THEN <<CheckoutProgress.value>> ELSE <<>>

C14_Witness ==
  /\ Rendered
  /\ CheckoutProgress # Null
  /\ CheckoutProgress.value = 0
  /\ View.progressValue = <<0>>

\* C15: a badge bottom update stores the reported value as it is, makes no
\* call, and leaves the overlay flags, what is shown and every DisplayState
\* field unchanged; the stored value only places the popover.
C15_BadgeBottomOnly ==
  [][lastEvent'.handler = "updateBadgeBottomPosition" =>
       /\ badgeBottom' = lastEvent'.badgeBottom
       /\ calls' = <<>>
       /\ UNCHANGED <<isOpen, showCIStatusPopover, repositoryState,
                      currentPullRequest>>
       /\ LET after == render(Props, badgeBottom', darwin)
          IN  /\ DisplayState(after) = DisplayState(View)
              /\ after.dropdownState = View.dropdownState
              /\ (after.popover # Null) = PopoverShown
              /\ after.popover # Null =>
                   after.popover.badgeBottom = lastEvent'.badgeBottom]_vars

C15_Witness ==
  /\ lastEvent.handler = "updateBadgeBottomPosition"
  /\ lastEvent.badgeBottom = 0
  /\ badgeBottom = 0
  /\ PopoverShown
  /\ View.popover.badgeBottom = 0

\* C16: a badge click with the popover flag true makes exactly one call, to
\* set the flag to false; with the flag false it first asks to close the
\* branch foldout and then to set the flag to true, so that the flags are never
\* both true after any of its calls.
C16_ToggleProtocol ==
  lastEvent.handler = "onBadgeClick"
    => IF visBefore1.showCIStatusPopover
         THEN calls = <<Call("setShowCIStatusPopover", "false")>>
         ELSE /\ calls = <<Call("closeFoldout", "Branch"),
                           Call("setShowCIStatusPopover", "true")>>
              /\ \A k \in 1..Len(calls) :
                   LET h == HostApplyAll(visBefore1, SubSeq(calls, 1, k))
                   IN  ~(h.isOpen /\ h.showCIStatusPopover)

C16_Witness ==
  /\ lastEvent.handler = "onBadgeClick"
  /\ visBefore1.isOpen
  /\ ~visBefore1.showCIStatusPopover
  /\ showCIStatusPopover
  /\ ~isOpen

\* C17: with no checkout in progress a conflict that is not a rebase conflict
\* leaves the display as it is without any conflict.
C17_OtherConflictPassesThrough ==
  (Rendered /\ CheckoutProgress = Null /\ ConflictState # Null /\ ~RebaseConflict)
    => LET others == [Props EXCEPT !.repositoryState.changesState.conflictState = Null]
       IN  /\ View = render(others, badgeBottom, darwin)
           /\ Display(Props, darwin) = TipDisplay(Props, darwin) @@ [progressValue |-> <<>>]

C17_Witness ==
  /\ Rendered
  /\ CheckoutProgress = Null
  /\ ConflictState.kind = "merge"
  /\ CanOpen
  /\ ~View.disabled

\* C18: once a snapshot with canOpen false has arrived while the picker was
\* displayed open, the picker stays displayed closed in every later state
\* until an open request goes to the host.
C18_CancellationPermanent == cancelled => ~PickerShown

\* C19: one click on the badge while the popover is shown, delivered to the
\* outside-pointer handler and to the badge's click handler in either order,
\* makes exactly one call, to set the popover flag to false, and leaves the
\* popover closed.
C19_BadgeClickClosesOnce ==
  lastEvent.handler = "closePopover+onBadgeClick"
    => /\ calls = <<Call("setShowCIStatusPopover", "false")>>
       /\ ~showCIStatusPopover
       /\ ~PopoverShown

C19_Witness ==
  /\ lastEvent.handler = "closePopover+onBadgeClick"
  /\ lastEvent.state = "closeFirst"
  /\ visBefore1.showCIStatusPopover
  /\ ~PopoverShown

\* C20: the popover is displayed if and only if the host's flag is true, a
\* pull request exists and the tip is not Unknown.
C20_PopoverFollowsFlag ==
  PopoverShown <=>
    (showCIStatusPopover /\ currentPullRequest # Null /\ Tip.kind # "Unknown")

\* C20 witness: the flag stays true while nothing is displayed.
C20_Witness ==
  /\ showCIStatusPopover
  /\ currentPullRequest = Null
  /\ Rendered
  /\ ~PopoverShown

====
